---- MODULE Spec2Model ----
(***************************************************************************)
(* ValidatedMethod (src/validated-method.js, class at lines 282-657):      *)
(* runtime validation and coercion of call arguments against a schema.     *)
(*                                                                         *)
(* JavaScript values are records [t, k, n]: t is the typeof tag, k the     *)
(* finer kind, n an integer payload.  Numbers are held in tenths (429 is   *)
(* 42.9).  A string is "numeric" (its whole text is the canonical form of  *)
(* the number n), "prefix" (a numeric prefix n followed by other text,     *)
(* like "42.9px") or "text" (no numeric prefix; n identifies the text).    *)
(* An array is empty (n = 0) or the one-element array [7] (n = 1).         *)
(***************************************************************************)
EXTENDS Integers, Sequences, FiniteSets, TLC

\* ------------------------------------------------------------------ bounds
MaxArgs == 3

\* ------------------------------------------------------------------ values
Undefined == [t |-> "undefined", k |-> "undefined", n |-> 0]
Null == [t |-> "object", k |-> "null", n |-> 0]
Num(x) == [t |-> "number", k |-> "finite", n |-> x]
NaN == [t |-> "number", k |-> "nan", n |-> 0]
Infinity == [t |-> "number", k |-> "inf", n |-> 1]
Str(x) == [t |-> "string", k |-> "numeric", n |-> x]
StrPx(x) == [t |-> "string", k |-> "prefix", n |-> x]
Text(i) == [t |-> "string", k |-> "text", n |-> i]
Bool(b) == [t |-> "boolean", k |-> "bool", n |-> IF b THEN 1 ELSE 0]
PlainObj == [t |-> "object", k |-> "plain", n |-> 0]
Arr(len) == [t |-> "object", k |-> "array", n |-> len]
Inst(cls) == [t |-> "object", k |-> cls, n |-> 0]
Fn == [t |-> "function", k |-> "arrow", n |-> 0]
Sym == [t |-> "symbol", k |-> "symbol", n |-> 0]
\* the marker of a key an object does not have (a read of it gives undefined)
Absent == [t |-> "absent", k |-> "absent", n |-> 0]

\* typeof value
Typeof(v) == v.t

\* Array.isArray(value)
IsArray(v) == v.t = "object" /\ v.k = "array"

\* the value a property read opts[key] gives
Read(v) == IF v = Absent THEN Undefined ELSE v

\* !!value
Truthy(v) ==
    CASE v.t = "undefined" -> FALSE
      [] v.t = "number" -> ~(v.k = "nan" \/ (v.k = "finite" /\ v.n = 0))
      [] v.t = "string" -> ~(v.k = "text" /\ v.n = 0)
      [] v.t = "boolean" -> v.n = 1
      [] v.t = "object" -> v.k # "null"
      [] OTHER -> TRUE

\* parseFloat(value): String(value), then the longest numeric prefix
ParseFloat(v) ==
    CASE v.t = "number" -> v
      [] v.t = "string" /\ v.k \in {"numeric", "prefix"} -> Num(v.n)
      [] IsArray(v) /\ v.n = 1 -> Num(70)
      [] OTHER -> NaN

\* isNaN(num) for a number
IsNaN(v) == v.t = "number" /\ v.k = "nan"

\* Number.isInteger(num)
IsInteger(v) == v.t = "number" /\ v.k = "finite" /\ v.n % 10 = 0

\* Math.floor(num)
MathFloor(v) == IF v.k = "finite" THEN Num((v.n \div 10) * 10) ELSE v

\* Math.round(num): the nearest whole number, a tie going up
MathRound(v) == IF v.k = "finite" THEN Num(((v.n + 5) \div 10) * 10) ELSE v

\* String(value)
ToStr(v) ==
    CASE v.t = "string" -> v
      [] v.t = "number" /\ v.k = "finite" -> Str(v.n)
      [] v.t = "number" /\ v.k = "nan" -> Text(10)
      [] v.t = "number" /\ v.k = "inf" -> Text(11)
      [] v.t = "undefined" -> Text(12)
      [] v.t = "boolean" -> Text(IF v.n = 1 THEN 2 ELSE 3)
      [] v.t = "object" /\ v.k = "null" -> Text(13)
      [] IsArray(v) -> IF v.n = 1 THEN Str(70) ELSE Text(0)
      [] v.t = "object" -> Text(14)
      [] OTHER -> Text(15)

\* ------------------------------------------------------- call arguments
\* the property names an object may carry, in Object.keys order
KeyOrder == <<"0", "a", "b", "value", "x">>
Keys == {KeyOrder[i] : i \in 1..Len(KeyOrder)}
NoFields == [key \in Keys |-> Absent]

\* an actual argument: a value together with its own properties
Prim(v) == [t |-> v.t, k |-> v.k, n |-> v.n, f |-> NoFields]
Flat(arg) == [t |-> arg.t, k |-> arg.k, n |-> arg.n]
Obj(fields) == [t |-> "object", k |-> "plain", n |-> 0, f |-> fields]
\* the one-element array [7] has the own property "0"
ArrArg(len) ==
    [t |-> "object", k |-> "array", n |-> len,
     f |-> IF len = 1 THEN [NoFields EXCEPT !["0"] = Num(70)] ELSE NoFields]

\* Object.keys(opts)
OwnKeys(arg) == SelectSeq(KeyOrder, LAMBDA key : arg.f[key] # Absent)

\* ---------------------------------------------------------- descriptors
\* a descriptor is the JavaScript value written in the schema: a string, a
\* function, a RegExp, an array of those, or anything else
D(dt, name) == [dt |-> dt, name |-> name, m |-> << >>]
Kind(name) == D("string", name)
Func(name) == D("function", name)
Pattern(name) == D("regexp", name)
Junk == D("number", "42")
Union(members) == [dt |-> "array", name |-> "", m |-> members]

\* the functions used as descriptors:
\*   TestType   class TestType {}                 (prototype not writable)
\*   fnDecl     function fnDecl(v) { return typeof v === 'number' }
\*   isNumber   v => typeof v === 'number'        (arrow: no prototype)
\*   identity   v => v
\*   asyncTrue  async v => true
\*   thrower    v => { throw new Error() }
HasPrototype(fname) == fname \in {"TestType", "fnDecl"}

\* a test that finds no function with a writable prototype
PrototypeWritableNever(fname) == FALSE

\* Object.getOwnPropertyDescriptor(type, 'prototype')?.writable, for a
\* function that has a prototype
PrototypeWritable(fname) == fname = "fnDecl"

\* the outcome of calling type(value)
ApplyFn(fname, v) ==
    CASE fname \in {"isNumber", "fnDecl"} ->
             [thrown |-> FALSE, val |-> Bool(Typeof(v) = "number")]
      [] fname = "identity" -> [thrown |-> FALSE, val |-> v]
      [] fname = "asyncTrue" -> [thrown |-> FALSE, val |-> Inst("Promise")]
      [] OTHER -> [thrown |-> TRUE, val |-> Undefined]

\* value instanceof type, for a function that has a prototype
InstanceOf(v, fname) == v.t = "object" /\ v.k = fname

\* result instanceof Promise
IsPromise(v) == InstanceOf(v, "Promise")

\* the patterns used as descriptors: digits is /^\d+$/ and digitsG is
\* /^\d+$/g, whose lastIndex is kept from one test to the next
IsGlobal(pname) == pname = "digitsG"

\* whether str matches the pattern when the search starts at index 0
RegExpTest(pname, str) ==
    CASE pname \in {"digits", "digitsG"} ->
             str.k = "numeric" /\ str.n >= 0 /\ str.n % 10 = 0
      [] OTHER -> FALSE

\* validator.test(str), the pattern's lastIndex being 0 or past the start (1):
\* a global pattern searches from lastIndex, where ^ cannot match, and a
\* failed search sets lastIndex back to 0; a match leaves it past the start
RegExpExec(pname, str, lastIndex) ==
    IF ~IsGlobal(pname) THEN [ok |-> RegExpTest(pname, str), rx |-> lastIndex]
    ELSE IF lastIndex > 0 THEN [ok |-> FALSE, rx |-> 0]
    ELSE IF RegExpTest(pname, str) THEN [ok |-> TRUE, rx |-> 1]
    ELSE [ok |-> FALSE, rx |-> 0]

\* --------------------------------------------------------------- errors
NoError == [kind |-> "none", key |-> ""]
Err(kind, key) == [kind |-> kind, key |-> key]

\* ------------------------------------------------------ number coercion
IntTypes == {"int", "roundint", "strictint"}
FloatTypes == {"number", "float", "strictfloat"}

\* #validateNumber(value, key, strict): the number, or a thrown TypeError
validateNumber(value, strict) ==
    IF strict /\ Typeof(value) # "number" THEN [ok |-> FALSE, val |-> Undefined]
    ELSE IF Typeof(value) = "symbol" THEN [ok |-> FALSE, val |-> Undefined]
    ELSE LET num == ParseFloat(value)
         IN  IF IsNaN(num) THEN [ok |-> FALSE, val |-> Undefined]
             ELSE [ok |-> TRUE, val |-> num]

\* #validateInteger(value, key, type)
validateInteger(value, type) ==
    LET r == validateNumber(value, type = "strictint")
    IN  IF ~r.ok THEN r
        ELSE IF type = "strictint" /\ ~IsInteger(r.val)
             THEN [ok |-> FALSE, val |-> Undefined]
        ELSE [ok |-> TRUE,
              val |-> IF type = "roundint" THEN MathRound(r.val)
                      ELSE MathFloor(r.val)]

\* ------------------------------------------------- positional validation
\* the progress of one validation: the bag, the error thrown (if any), the
\* fields or positions examined so far, the predicate calls made so far, the
\* diagnostics written to the console and the lastIndex of the pattern
StartState(bag) ==
    [bag |-> bag, err |-> NoError, checked |-> << >>, preds |-> << >>,
     warnings |-> << >>, rx |-> 0]

\* throw new TypeError(...), for the field or position key
Fail(st, kind, key) == [st EXCEPT !.err = Err(kind, key)]

\* a call type(value) of a validator function
NotePred(st, fname, key, value) ==
    [st EXCEPT !.preds = Append(@, [fn |-> fname, key |-> key, arg |-> value])]

\* the body of types.forEach((type, index) => ...) in #validateArrayTypes
ArrayEntry(type, i, st0) ==
    LET key == ToString(i - 1)
        value == Flat(st0.bag[i])
        st == [st0 EXCEPT !.checked = Append(@, key)]
    IN  IF type.dt = "function" THEN
            IF ~(HasPrototype(type.name) /\ ~PrototypeWritable(type.name)) THEN
                \* not a class: a validator function
                LET r == ApplyFn(type.name, value)
                    st1 == NotePred(st, type.name, key, value)
                IN  IF r.thrown THEN Fail(st1, "validator", key)
                    ELSE IF IsPromise(r.val) THEN Fail(st1, "validator", key)
                    ELSE IF ~Truthy(r.val) THEN Fail(st1, "validator", key)
                    ELSE st1
            ELSE IF ~InstanceOf(value, type.name) THEN Fail(st, "type", key)
            ELSE st
        ELSE IF type.dt = "string" /\ type.name \in IntTypes THEN
            LET r == validateInteger(value, type.name)
            IN  IF r.ok THEN [st EXCEPT !.bag[i] = Prim(r.val)]
                ELSE Fail(st, "type", key)
        ELSE IF type.dt = "string" /\ Typeof(value) # type.name THEN
            Fail(st, "type", key)
        ELSE st

\* types.forEach(...): a throw ends the iteration
RECURSIVE ArrayLoop(_, _, _)
ArrayLoop(types, i, st) ==
    IF i > Len(types) \/ st.err # NoError THEN st
    ELSE ArrayLoop(types, i + 1, ArrayEntry(types[i], i, st))

\* an arity check that demands exactly as many values as types
validateArrayTypesExact(values, types) ==
    LET st == StartState(values)
    IN  IF Len(values) # Len(types) THEN Fail(st, "arity", "")
        ELSE ArrayLoop(types, 1, st)

\* #validateArrayTypes(values, types)
validateArrayTypes(values, types) ==
    LET st == StartState(values)
    IN  IF Len(types) = 0 THEN
            IF Len(values) > 0 THEN Fail(st, "arity", "") ELSE st
        ELSE IF Len(values) < Len(types) THEN Fail(st, "arity", "")
        ELSE ArrayLoop(types, 1, st)

\* ----------------------------------------------------- object validation
\* validator.includes(name), for an array-based validator
Includes(members, name) ==
    \E j \in 1..Len(members) : members[j] = Kind(name)

\* validator.filter(v => v !== 'optional' && v !== 'undefined')
NonMarkers(members) ==
    SelectSeq(members, LAMBDA d : d # Kind("optional") /\ d # Kind("undefined"))

\* opts[key] = v
Store(st, key, v) == [st EXCEPT !.bag[1].f[key] = v]

\* array-based validators that let only 'optional' stand for an absent value
UnionEntryOptionalOnly(validator, key, value, st) ==
    IF value = Undefined /\ Includes(validator.m, "optional") THEN st
    ELSE IF value = Null THEN st
    ELSE IF ~Includes(NonMarkers(validator.m), Typeof(value))
    THEN Fail(st, "type", key)
    ELSE st

\* the array-based validators: if (Array.isArray(validator)) { ... continue; }
UnionEntry(validator, key, value, st) ==
    IF value = Undefined /\ (Includes(validator.m, "optional")
                             \/ Includes(validator.m, "undefined"))
    THEN st
    ELSE IF value = Null THEN st
    ELSE IF ~Includes(NonMarkers(validator.m), Typeof(value))
    THEN Fail(st, "type", key)
    ELSE st

\* the body of for (const [key, validator] of Object.entries(schema))
ObjEntry(item, st0) ==
    LET key == item.key
        validator == item.desc
        value == Read(st0.bag[1].f[key])
        st == [st0 EXCEPT !.checked = Append(@, key)]
    IN  IF validator.dt = "array" THEN UnionEntry(validator, key, value, st)
        ELSE IF validator = Kind("optional") THEN st
        ELSE IF value = Undefined THEN Fail(st, "missing", key)
        ELSE IF validator = Kind("any") THEN st
        ELSE IF validator = Kind("array") THEN
            IF ~IsArray(value) THEN Fail(st, "type", key) ELSE st
        ELSE IF validator.dt = "function" /\ ~HasPrototype(validator.name) THEN
            LET r == ApplyFn(validator.name, value)
                st1 == NotePred(st, validator.name, key, value)
            IN  IF r.thrown THEN Fail(st1, "thrown", key)
                ELSE IF ~Truthy(r.val) THEN Fail(st1, "type", key)
                ELSE st1
        ELSE IF validator.dt = "function" /\ ~InstanceOf(value, validator.name)
        THEN Fail(st, "type", key)
        ELSE IF validator = Kind("strictboolean") THEN
            IF Typeof(value) # "boolean" THEN Fail(st, "type", key) ELSE st
        ELSE IF validator = Kind("boolean") THEN
            Store(st, key, Bool(Truthy(value)))
        ELSE IF validator.dt = "string" /\ validator.name \in IntTypes THEN
            LET r == validateInteger(value, validator.name)
            IN  IF r.ok THEN Store(st, key, r.val) ELSE Fail(st, "type", key)
        ELSE IF validator.dt = "string" /\ validator.name \in FloatTypes THEN
            LET r == validateNumber(value, validator.name = "strictfloat")
            IN  IF r.ok THEN Store(st, key, r.val) ELSE Fail(st, "type", key)
        ELSE IF validator.dt = "string" /\ Typeof(value) # validator.name THEN
            Fail(st, "type", key)
        ELSE IF validator.dt = "regexp" THEN
            IF Typeof(value) = "symbol" THEN Fail(st, "type", key)
            ELSE LET str == ToStr(value)
                     r == RegExpExec(validator.name, str, st.rx)
                     st1 == [st EXCEPT !.rx = r.rx]
                 IN  IF ~r.ok THEN Fail(st1, "type", key)
                     ELSE Store(st1, key, str)
        ELSE st

\* a field loop that collects errors instead of stopping at the first one
RECURSIVE ObjLoopAll(_, _, _)
ObjLoopAll(items, i, st) ==
    IF i > Len(items) THEN st
    ELSE LET nx == ObjEntry(items[i], [st EXCEPT !.err = NoError])
         IN  ObjLoopAll(items, i + 1,
                        IF nx.err = NoError THEN [nx EXCEPT !.err = st.err]
                        ELSE nx)

\* for (const [key, validator] of Object.entries(schema)): a throw ends it
RECURSIVE ObjLoop(_, _, _)
ObjLoop(items, i, st) ==
    IF i > Len(items) \/ st.err # NoError THEN st
    ELSE ObjLoop(items, i + 1, ObjEntry(items[i], st))

\* Object.values(schema).every(v => v === 'optional' ||
\*                                   (Array.isArray(v) && v.includes('optional')))
AllOptional(items) ==
    \A j \in 1..Len(items) :
        \/ items[j].desc = Kind("optional")
        \/ items[j].desc.dt = "array" /\ Includes(items[j].desc.m, "optional")

\* schema.hasOwnProperty(key)
HasOwn(items, key) == \E j \in 1..Len(items) : items[j].key = key

\* the console.warn calls of the extra-parameter loop
ExtraWarnings(opts, items, q) ==
    IF q THEN << >>
    ELSE SelectSeq(OwnKeys(opts), LAMBDA key : ~HasOwn(items, key))

\* an extra-parameter loop that throws, unless quiet, on the first key the
\* schema does not have
ExtraLoopThrows(st, opts, items, q) ==
    LET extra == ExtraWarnings(opts, items, q)
    IN  IF extra = << >> THEN st ELSE Fail(st, "extra", extra[1])

\* for (const key of Object?.keys(opts)) { ... console.warn(...) }
ExtraLoop(st, opts, items, q) ==
    [st EXCEPT !.warnings = ExtraWarnings(opts, items, q)]

\* the sequence of the descriptors of a schema
Descs(items) == [j \in 1..Len(items) |-> items[j].desc]

\* #validate(opts, schema): opts is the list of values for an array schema
\* and the one argument object otherwise
validate(bag, schema, q) ==
    IF schema.isArraySchema
    THEN [validateArrayTypes(bag, Descs(schema.items)) EXCEPT !.rx = schema.rx]
    ELSE LET opts == bag[1]
             st == [StartState(bag) EXCEPT !.rx = schema.rx]
         IN  IF ~Truthy(Flat(opts)) /\ AllOptional(schema.items) THEN st
             ELSE IF ~Truthy(Flat(opts)) \/ Typeof(opts) # "object"
             THEN Fail(st, "notobject", "")
             ELSE ObjLoop(schema.items, 1,
                          ExtraLoop(st, opts, schema.items, q))

\* ----------------------------------------------------- return validation
\* the outcome of #checkType: a boolean, or the TypeError it throws, and the
\* lastIndex it leaves in the pattern
Match(b, rx) == [thrown |-> FALSE, ok |-> b, rx |-> rx]
CheckThrows(rx) == [thrown |-> TRUE, ok |-> FALSE, rx |-> rx]

\* [0, 1, 'true', 'false'].includes(value)
BooleanLike(v) == v \in {Num(0), Num(10), Text(2), Text(3)}

\* a 'void' test that never matches
IsVoidTypeNever(type) == FALSE

\* type === 'void'
IsVoidType(type) == type = Kind("void")

\* #checkType(value, type), the pattern's lastIndex being rx
checkType(value, type, rx) ==
    IF type.dt = "function" /\ ~HasPrototype(type.name) THEN
        LET r == ApplyFn(type.name, value)
        IN  IF r.thrown THEN CheckThrows(rx)
            ELSE Match(r.val = Bool(TRUE), rx)
    ELSE IF type.dt = "function"
    THEN Match(InstanceOf(value, type.name), rx)
    ELSE IF IsVoidType(type) THEN Match(value = Undefined, rx)
    ELSE IF type = Kind("undefined") THEN Match(value = Undefined, rx)
    ELSE IF value = Undefined THEN Match(FALSE, rx)
    ELSE IF type = Kind("any") THEN Match(TRUE, rx)
    ELSE IF type = Kind("array") THEN Match(IsArray(value), rx)
    ELSE IF type = Kind("strictboolean")
    THEN Match(Typeof(value) = "boolean", rx)
    ELSE IF type = Kind("boolean")
    THEN Match(Typeof(value) = "boolean" \/ BooleanLike(value), rx)
    ELSE IF type.dt = "string" /\ type.name \in IntTypes
    THEN Match(validateInteger(value, type.name).ok, rx)
    ELSE IF type.dt = "string" /\ type.name \in FloatTypes
    THEN Match(validateNumber(value, type.name = "strictfloat").ok, rx)
    ELSE IF type.dt = "regexp" THEN
        IF Typeof(value) = "symbol" THEN Match(FALSE, rx)
        ELSE LET r == RegExpExec(type.name, ToStr(value), rx)
             IN  Match(r.ok, r.rx)
    ELSE Match(type.dt = "string" /\ Typeof(value) = type.name, rx)

\* types.some(t => this.#checkType(value, t)): the members are tried in
\* order, up to the first that matches or throws
RECURSIVE SomeMatch(_, _, _, _)
SomeMatch(value, types, i, rx) ==
    IF i > Len(types) THEN Match(FALSE, rx)
    ELSE LET r == checkType(value, types[i], rx)
         IN  IF r.thrown \/ r.ok THEN r
             ELSE SomeMatch(value, types, i + 1, r.rx)

\* what #validateReturn does: it returns, or it throws one of two TypeErrors
Checked(r) ==
    [err |-> IF r.thrown THEN Err("customValidator", "return")
             ELSE IF ~r.ok THEN Err("returnType", "return")
             ELSE NoError,
     rx |-> r.rx]

\* #validateReturn(value, type), the pattern's lastIndex being rx: the
\* TypeError thrown (or none) and the lastIndex left
validateReturn(value, type, rx) ==
    IF type.dt = "array" THEN
        IF value = Undefined /\ Includes(type.m, "optional")
        THEN Checked(Match(TRUE, rx))
        ELSE IF value = Null /\ Includes(type.m, "null")
        THEN Checked(Match(TRUE, rx))
        ELSE Checked(SomeMatch(value, NonMarkers(type.m), 1, rx))
    ELSE Checked(checkType(value, type, rx))

\* ---------------------------------------------------------- construction
\* the raw schema handed to the constructor: rt tells what JavaScript value
\* it is, name is the text of a string or the name of a function, items are
\* the entries of an array (keys unused) or of a key-value mapping
Raw(rt, name, items) == [rt |-> rt, name |-> name, items |-> items]
Item(key, desc) == [key |-> key, desc |-> desc]
List(descs) == Raw("array", "", [j \in 1..Len(descs) |-> Item("", descs[j])])

\* typeof args
TypeofRaw(raw) ==
    CASE raw.rt \in {"null", "array", "object", "regexp"} -> "object"
      [] OTHER -> raw.rt

\* returnType when the constructor is given none
NoReturn == D("undefined", "")

NoMethod ==
    [status |-> "none", isArraySchema |-> FALSE, items |-> << >>,
     cb |-> "none", ret |-> NoReturn, rx |-> 0]

\* a zero-parameter test that forgets the 'void' marker
IsZeroParamNoVoid(raw) ==
    \/ raw.rt \in {"undefined", "null"}
    \/ raw.rt = "array" /\ Len(raw.items) = 0

\* args === undefined || args === null || args === 'void' ||
\* (Array.isArray(args) && args.length === 0)
IsZeroParam(raw) ==
    \/ raw.rt \in {"undefined", "null"}
    \/ raw = Raw("string", "void", << >>)
    \/ raw.rt = "array" /\ Len(raw.items) = 0

\* constructor(args, callback, returnType): the stored #args, the shape in
\* which #callback hands the bag to the user callback, the return type the
\* wrapped callback checks, and the lastIndex of the schema's pattern
Constructor(raw, returnType) ==
    IF IsZeroParam(raw)
    THEN [status |-> "ok", isArraySchema |-> TRUE, items |-> << >>,
          cb |-> "noargs", ret |-> returnType, rx |-> 0]
    ELSE IF TypeofRaw(raw) = "string" \/ raw.rt = "array"
            \/ TypeofRaw(raw) = "function"
    THEN [status |-> "ok", isArraySchema |-> TRUE,
          items |-> IF raw.rt = "array" THEN raw.items
                    ELSE << Item("", D(raw.rt, raw.name)) >>,
          cb |-> "spread", ret |-> returnType, rx |-> 0]
    ELSE IF TypeofRaw(raw) # "object"
    THEN [NoMethod EXCEPT !.status = "configError"]
    ELSE [status |-> "ok", isArraySchema |-> FALSE, items |-> raw.items,
          cb |-> "asis", ret |-> returnType, rx |-> 0]

\* ------------------------------------------------------------ invocation
\* params[0]
First(params) == IF Len(params) >= 1 THEN params[1] ELSE Prim(Undefined)

\* typeof this.#args.value === 'string' && Object.keys(this.#args).length === 1
IsSingle(m) ==
    Len(m.items) = 1 /\ m.items[1].key = "value" /\ m.items[1].desc.dt = "string"

\* the bag the invocable hands to #validate
MakeBag(m, params) ==
    IF m.isArraySchema THEN params
    ELSE IF IsSingle(m)
    THEN << Obj([NoFields EXCEPT !["value"] = Flat(First(params))]) >>
    ELSE << First(params) >>

\* the opts the invocable hands to wrappedCallback: opts for an array schema
\* and for the single parameter case, params[0] || {} otherwise
DispatchOpts(m, params, st) ==
    IF m.isArraySchema \/ IsSingle(m) THEN st.bag
    ELSE IF Truthy(Flat(First(params))) THEN st.bag
    ELSE << Obj(NoFields) >>

\* the arguments the user callback receives from this.#callback(opts)
CallbackArgs(m, opts) ==
    CASE m.cb = "noargs" -> << >>
      [] m.cb = "spread" -> opts
      [] OTHER -> opts

\* the caller's own arguments as they are once the call is over: only in the
\* object case is the bag the very object the caller passed
CallerArgs(m, params, st) ==
    IF m.isArraySchema \/ IsSingle(m) \/ Len(params) = 0 THEN params
    ELSE [params EXCEPT ![1] = st.bag[1]]

\* a dispatcher that runs the callback whatever #validate did
CallbackRunsAlways(st) == TRUE

\* if (this.#validate(opts, this.#args)) return wrappedCallback(opts):
\* #validate returns true or throws, so the callback runs iff nothing was thrown
CallbackRuns(st) == st.err = NoError

\* the invocable has no try/catch: what #validate throws is thrown to the caller
Thrown(st) == st.err

\* what the user callback does when it is run: it returns val, or (async) it
\* returns a promise that is later fulfilled with val or rejected with val
Returns(v) == [async |-> FALSE, val |-> v, fails |-> FALSE]
Resolves(v) == [async |-> TRUE, val |-> v, fails |-> FALSE]
RejectsWith(v) == [async |-> TRUE, val |-> v, fails |-> TRUE]

\* the promise the user callback made, and the one result.then(...) makes
CallbackPromise == Inst("Promise")
ThenPromise == [t |-> "object", k |-> "Promise", n |-> 1]

\* const result = this.#callback(opts)
CallbackResult(res) == IF res.async THEN CallbackPromise ELSE res.val

\* returnType ? (opts) => { ... } : this.#callback
HasReturnType(m) == m.ret # NoReturn

\* a wrapper that hands back the value as the return type reads it
ReturnValueCoerced(result, type) ==
    IF type.dt = "string" /\ type.name \in IntTypes
    THEN validateInteger(result, type.name).val
    ELSE IF type.dt = "regexp" THEN ToStr(result)
    ELSE result

\* this.#validateReturn(result, returnType); return result;
ReturnValue(result, type) == result

\* a wrapper that runs the user callback once more when the check fails
CallbackCallsRetry(e) == IF e = NoError THEN 1 ELSE 2

\* the runs of this.#callback(opts) in one run of wrappedCallback, whatever
\* the TypeError e of the return check
CallbackCalls(e) == 1

\* wrappedCallback(opts), given what the user callback does: the TypeError
\* thrown, the value returned, the runs of the user callback and of
\* #validateReturn, whether a promise is left pending, and the lastIndex of
\* the pattern
wrappedCallback(m, res) ==
    LET result == CallbackResult(res)
    IN  IF ~HasReturnType(m)
        THEN [thrown |-> NoError, returned |-> result,
              calls |-> CallbackCalls(NoError), checks |-> 0,
              pending |-> IsPromise(result), rx |-> m.rx]
        ELSE IF IsPromise(result)
        THEN [thrown |-> NoError, returned |-> ThenPromise,
              calls |-> CallbackCalls(NoError), checks |-> 0,
              pending |-> TRUE, rx |-> m.rx]
        ELSE LET c == validateReturn(result, m.ret, m.rx)
             IN  [thrown |-> c.err,
                  returned |-> IF c.err = NoError
                               THEN ReturnValue(result, m.ret)
                               ELSE Undefined,
                  calls |-> CallbackCalls(c.err), checks |-> 1,
                  pending |-> FALSE, rx |-> c.rx]

\* how a promise stands: pending, fulfilled with val, rejected with the
\* TypeError err, or rejected with the reason val the callback gave
Unsettled == [state |-> "none", val |-> Undefined, err |-> NoError]
Fulfilled(v) == [state |-> "fulfilled", val |-> v, err |-> NoError]
Rejected(e) == [state |-> "rejected", val |-> Undefined, err |-> e]
RejectedWith(v) == [state |-> "rejected", val |-> v, err |-> NoError]

\* a then-callback that passes every resolved value on unchecked
ThenHandlerUnchecked(value, type, rx) == Fulfilled(value)

\* value => { this.#validateReturn(value, returnType); return value; }
ThenHandler(value, type, rx) ==
    LET c == validateReturn(value, type, rx)
    IN  IF c.err = NoError THEN Fulfilled(value) ELSE Rejected(c.err)

\* a then that runs its callback on a rejected promise too
ThenRunsAlways(res) == TRUE

\* result.then(onFulfilled): the callback runs only if the promise fulfils
ThenRuns(res) == ~res.fails

\* (...params) => { ... }: the whole call, up to the point where it returns
\* or throws; rx0 and rx are the pattern's lastIndex before and after
Invoke(m, params, q, res) ==
    LET st == validate(MakeBag(m, params), m, q)
        ok == CallbackRuns(st)
        w == wrappedCallback([m EXCEPT !.rx = st.rx], res)
    IN  [called |-> TRUE,
         quiet |-> q,
         params |-> params,
         err |-> st.err,
         thrown |-> IF ok THEN w.thrown ELSE Thrown(st),
         cbCalls |-> IF ok THEN w.calls ELSE 0,
         cbArgs |-> IF ok THEN CallbackArgs(m, DispatchOpts(m, params, st))
                    ELSE << >>,
         after |-> CallerArgs(m, params, st),
         bag |-> st.bag,
         checked |-> st.checked,
         preds |-> st.preds,
         warnings |-> st.warnings,
         res |-> IF ok THEN res ELSE Returns(Undefined),
         returned |-> IF ok THEN w.returned ELSE Undefined,
         retChecks |-> IF ok THEN w.checks ELSE 0,
         phase |-> IF ok /\ w.pending THEN "pending" ELSE "done",
         settled |-> Unsettled,
         rx0 |-> m.rx,
         rxCheck |-> st.rx,
         rx |-> IF ok THEN w.rx ELSE st.rx]

NoCall ==
    [called |-> FALSE, quiet |-> FALSE,
     params |-> << >>, err |-> NoError, thrown |-> NoError, cbCalls |-> 0, cbArgs |-> << >>,
     after |-> << >>, bag |-> << >>, checked |-> << >>, preds |-> << >>,
     warnings |-> << >>, res |-> Returns(Undefined), returned |-> Undefined,
     retChecks |-> 0, phase |-> "done", settled |-> Unsettled,
     rx0 |-> 0, rxCheck |-> 0, rx |-> 0]

\* the promise of the call is settled: a rejection goes to the caller as it
\* is; a resolved value goes through the then-callback when there is a return
\* type, and straight to the caller otherwise
SettleCall(m, call) ==
    IF HasReturnType(m) /\ ThenRuns(call.res)
    THEN [call EXCEPT !.phase = "settled",
                      !.retChecks = @ + 1,
                      !.settled = ThenHandler(call.res.val, m.ret, m.rx),
                      !.rxCheck = m.rx,
                      !.rx = validateReturn(call.res.val, m.ret, m.rx).rx]
    ELSE [call EXCEPT !.phase = "settled",
                      !.settled = IF call.res.fails
                                  THEN RejectedWith(call.res.val)
                                  ELSE Fulfilled(call.res.val),
                      !.rx = m.rx]

\* ------------------------------------------------- the values explored
Numbers ==
    {Num(420), Num(429), Num(0 - 15), Num(0 - 20), Num(0), NaN, Infinity}
Strings == {Str(429), Str(0 - 15), Str(70), StrPx(120), Text(1), Text(0)}
Others ==
    {Bool(TRUE), Bool(FALSE), Null, Undefined, PlainObj, Arr(0), Arr(1),
     Inst("TestType"), Fn}
Values == Numbers \cup Strings \cup Others

\* the values of field b and of the arguments after the first
FewValues == {Num(429), Str(70), Text(1), Inst("TestType")}

\* an argument that is the value v (an array carries its elements)
Arg(v) == IF IsArray(v) THEN ArrArg(v.n) ELSE Prim(v)

\* the argument objects { a, b, x }, each property present or not
ArgObjects ==
    {Obj([NoFields EXCEPT !["a"] = va, !["b"] = vb, !["x"] = vx]) :
        va \in Values \cup {Absent}, vb \in FewValues \cup {Absent},
        vx \in {Absent, Num(10)}}
    \cup {Obj([NoFields EXCEPT !["value"] = v]) : v \in {Text(1), Num(429)}}

RECURSIVE Lists(_, _)
Lists(S, len) ==
    IF len = 0 THEN {<< >>}
    ELSE {<< x >> \o rest : x \in S, rest \in Lists(S, len - 1)}

\* the argument lists of a call: at most MaxArgs arguments
ParamLists ==
    {<< >>}
    \cup {<< Arg(v) >> : v \in Values}
    \cup {<< o >> : o \in ArgObjects}
    \cup {<< Arg(v) >> \o rest : v \in FewValues \cup {Obj(NoFields)},
                                 rest \in UNION {Lists({Prim(w) : w \in FewValues}, len) :
                                                    len \in 1..(MaxArgs - 1)}}

KindNames ==
    {"string", "number", "float", "strictfloat", "int", "roundint",
     "strictint", "boolean", "strictboolean", "object", "array", "function",
     "null", "any", "optional", "undefined", "void", "foo"}
FuncNames == {"TestType", "fnDecl", "isNumber", "identity", "asyncTrue", "thrower"}

Unions ==
    {Union(<< Kind("string"), Kind("optional") >>),
     Union(<< Kind("number"), Kind("undefined") >>),
     Union(<< Kind("string"), Kind("number") >>),
     Union(<< Func("TestType"), Kind("object") >>),
     Union(<< Func("TestType"), Kind("string") >>),
     Union(<< Kind("array"), Kind("string") >>),
     Union(<< Kind("int"), Kind("optional") >>),
     Union(<< Pattern("digits"), Kind("undefined") >>),
     Union(<< Func("isNumber") >>),
     Union(<< Kind("boolean"), Kind("null") >>)}

Descriptors ==
    {Kind(name) : name \in KindNames} \cup {Func(name) : name \in FuncNames}
    \cup {Pattern("digits"), Pattern("digitsG"), Junk} \cup Unions

FewDescriptors ==
    {Kind("string"), Kind("int"), Kind("boolean"), Func("isNumber"),
     Func("TestType"), Pattern("digits"),
     Union(<< Kind("string"), Kind("optional") >>)}

\* the return types handed to the constructor
ReturnUnions ==
    {Union(<< Kind("string"), Kind("optional") >>),
     Union(<< Kind("string"), Kind("undefined") >>),
     Union(<< Kind("number"), Kind("null") >>),
     Union(<< Kind("int"), Func("TestType") >>),
     Union(<< Func("thrower"), Kind("string") >>),
     Union(<< Kind("string"), Func("thrower") >>),
     Union(<< Func("identity"), Kind("array") >>)}

ReturnDescriptors ==
    {Kind(name) : name \in KindNames} \cup {Func(name) : name \in FuncNames}
    \cup {Pattern("digits"), Pattern("digitsG")} \cup ReturnUnions

\* the schemas that are also constructed with a return type
ReturnRaws ==
    {Raw("string", "void", << >>), Raw("string", "string", << >>),
     Raw("object", "", << Item("a", Kind("string")) >>)}

ReturnTypes(raw) ==
    IF raw \in ReturnRaws THEN {NoReturn} \cup ReturnDescriptors
    ELSE {NoReturn}

\* what the user callback may do
ResultValues == Values \cup {Text(2), Text(3), Num(10)}
Reasons == {Inst("Error"), Text(1)}
Results ==
    {Returns(v) : v \in ResultValues} \cup {Resolves(v) : v \in ResultValues}
    \cup {RejectsWith(v) : v \in Reasons}

\* the callbacks of the calls that are followed while another call is made,
\* and the callbacks of the calls made meanwhile
InFlightResults == {Resolves(Str(70)), Resolves(Num(420)), RejectsWith(Text(1))}
MeanwhileResults == {Returns(Str(70)), Returns(Text(1)), Resolves(Str(70))}

\* the calls made on the methods of ReturnRaws
FewParamLists ==
    {<< >>, << Arg(Text(1)) >>, << Arg(Num(429)) >>,
     << Obj([NoFields EXCEPT !["a"] = Text(1)]) >>}

\* the argument lists and callback behaviours of the calls of a method;
\* busy: an earlier call is still being followed
CallInputs(raw, busy) ==
    IF busy THEN FewParamLists \X MeanwhileResults
    ELSE IF raw \in ReturnRaws THEN FewParamLists \X Results
    ELSE ParamLists \X {Returns(Str(429))}

\* the raw schemas handed to the constructor
RawSchemas ==
    {Raw("undefined", "", << >>), Raw("null", "", << >>),
     Raw("number", "42", << >>), Raw("boolean", "true", << >>),
     Raw("regexp", "digits", << >>), Raw("object", "", << >>)}
    \cup {Raw("string", name, << >>) : name \in KindNames}
    \cup {Raw("function", name, << >>) : name \in FuncNames}
    \cup {List(<< >>)}
    \cup {List(<< d >>) : d \in Descriptors}
    \cup {List(<< d1, d2 >>) : d1 \in FewDescriptors, d2 \in FewDescriptors}
    \cup {Raw("object", "", << Item("a", d) >>) : d \in Descriptors}
    \cup {Raw("object", "", << Item("a", d1), Item("b", d2) >>) :
             d1 \in FewDescriptors, d2 \in FewDescriptors}
    \cup {Raw("object", "", << Item("value", d) >>) :
             d \in {Kind("string"), Kind("int"), Kind("optional"),
                    Func("TestType")}}
    \cup {Raw("object", "", << Item("a", Kind("optional")),
                               Item("b", Union(<< Kind("string"),
                                                  Kind("optional") >>)) >>)}

\* ------------------------------------------------------- the state machine
\* args: the raw schema the constructor was given; method: the constructed
\* object (#args, #callback, the lastIndex of its pattern); quiet: the static
\* #quiet; last: the call in progress, from the caller's arguments to its
\* outcome; parked: an earlier call whose promise is still followed while
\* further calls are made
VARIABLES args, method, quiet, last, parked
vars == << args, method, quiet, last, parked >>

Init ==
    /\ args = Raw("undefined", "", << >>)
    /\ method = NoMethod
    /\ quiet = FALSE
    /\ last = NoCall
    /\ parked = NoCall

\* new ValidatedMethod(args, callback, returnType)
Construct ==
    /\ method.status = "none"
    /\ \E raw \in RawSchemas :
           \E returnType \in ReturnTypes(raw) :
               args' = raw /\ method' = Constructor(raw, returnType)
    /\ UNCHANGED << quiet, last, parked >>

\* ValidatedMethod.quiet = value
SetQuiet ==
    /\ \E b \in BOOLEAN : quiet' = b
    /\ UNCHANGED << args, method, last, parked >>

\* one call of the invocable, from the caller's arguments to the outcome;
\* the pattern of the schema keeps the lastIndex the call left
Call ==
    /\ method.status = "ok"
    /\ ~last.called
    /\ \E in \in CallInputs(args, parked.called) :
           LET call == Invoke(method, in[1], quiet, in[2])
           IN  /\ last' = call
               /\ method' = [method EXCEPT !.rx = call.rx]
    /\ UNCHANGED << args, quiet, parked >>

\* the promise the callback returned is settled and the then-callback runs
Settle ==
    /\ last.called /\ last.phase = "pending"
    /\ LET call == SettleCall(method, last)
       IN  /\ last' = call
           /\ method' = [method EXCEPT !.rx = call.rx]
    /\ UNCHANGED << args, quiet, parked >>

\* the caller has the outcome of the call, and of its promise, and goes on
Return ==
    /\ last.called /\ last.phase # "pending"
    /\ last' = NoCall
    /\ UNCHANGED << args, method, quiet, parked >>

\* the caller goes on to make further calls while the promise is pending
Park ==
    /\ last.called /\ last.phase = "pending"
    /\ ~parked.called
    /\ last.res \in InFlightResults
    /\ parked' = last
    /\ last' = NoCall
    /\ UNCHANGED << args, method, quiet >>

\* the promise of the earlier call is settled
SettleParked ==
    /\ parked.called /\ parked.phase = "pending"
    /\ LET call == SettleCall(method, parked)
       IN  /\ parked' = call
           /\ method' = [method EXCEPT !.rx = call.rx]
    /\ UNCHANGED << args, quiet, last >>

\* the caller has the outcome of the earlier call's promise
Collect ==
    /\ parked.called /\ parked.phase = "settled"
    /\ parked' = NoCall
    /\ UNCHANGED << args, method, quiet, last >>

Next ==
    \/ Construct \/ SetQuiet \/ Call \/ Settle \/ Return
    \/ Park \/ SettleParked \/ Collect

Spec == Init /\ [][Next]_vars

\* ================================================================ claims
\* the position of a field in the schema
KeyIndex(items, key) == CHOOSE j \in 1..Len(items) : items[j].key = key

\* the bag as it was when validation started
OrigBag == MakeBag(method, last.params)

\* the method as it was when the call started
MethodAtCall == [method EXCEPT !.rx = last.rx0]

\* the validation state at the start of the call
CallStart == [StartState(OrigBag) EXCEPT !.rx = last.rx0]

FieldErrors == {"missing", "type", "thrown"}

\* C1: for every schema kind, a call whose argument validation fails runs the
\* user callback zero times and throws the validation error to the caller
C1_NoCallbackOnInvalid ==
    last.called /\ last.err # NoError =>
        last.cbCalls = 0 /\ last.cbArgs = << >> /\ last.thrown = last.err

\* an object-schema call that fails on its second field, after the first
\* field's predicate has already been run
C1_Witness ==
    /\ last.called /\ ~method.isArraySchema
    /\ last.err = Err("type", "b")
    /\ Len(last.preds) = 1
    /\ last.cbCalls = 0

\* C2: object-schema validation examines the fields in declaration order and
\* stops at the first failing field: every earlier field is valid on its own,
\* the error is that field's, and no later field is examined, coerced or
\* given to its predicate
C2_FailFast ==
    last.called /\ ~method.isArraySchema /\ last.err.kind \in FieldErrors =>
        LET items == method.items
            i == KeyIndex(items, last.err.key)
        IN  /\ last.checked = [j \in 1..i |-> items[j].key]
            /\ \A j \in 1..(i - 1) :
                   ObjEntry(items[j], CallStart).err = NoError
            /\ ObjEntry(items[i], CallStart).err = last.err
            /\ \A j \in (i + 1)..Len(items) :
                   /\ last.bag[1].f[items[j].key] = OrigBag[1].f[items[j].key]
                   /\ \A p \in 1..Len(last.preds) :
                          last.preds[p].key # items[j].key

\* the first of two fields fails while the second one holds a value its
\* descriptor would have coerced
C2_Witness ==
    /\ last.called /\ ~method.isArraySchema
    /\ Len(method.items) = 2
    /\ last.err = Err("type", "a")
    /\ method.items[2].desc = Kind("int")
    /\ OrigBag[1].f["b"] = Str(70)
    /\ last.bag[1].f["b"] = Str(70)

\* C3: a call on an object-schema method leaves the argument object the
\* caller passed as it was, whether the call succeeds or fails part-way
C3_CallerObjectUnchanged ==
    last.called /\ ~method.isArraySchema => last.after = last.params

\* C4: on success the callback receives the bag in the authored calling
\* convention: nothing for a zero-argument schema, the coerced values spread
\* for a positional schema, the argument object itself (an empty object when
\* none was passed) as the single argument for every object schema
C4_CallbackConvention ==
    last.called /\ last.cbCalls = 1 =>
        IF method.isArraySchema /\ Len(method.items) = 0
        THEN last.cbArgs = << >>
        ELSE IF method.isArraySchema
        THEN last.cbArgs = last.bag
        ELSE last.cbArgs =
                 << IF Truthy(Flat(First(last.params)))
                    THEN First(last.after) ELSE Obj(NoFields) >>

\* C5: a positional schema with N >= 1 descriptors rejects a call with fewer
\* than N arguments by an arity error without running the callback, and
\* treats a call with more than N arguments as it treats its first N: the
\* extra arguments are not examined, not changed and not diagnosed
C5_PositionalArity ==
    last.called /\ method.isArraySchema /\ Len(method.items) >= 1 =>
        LET N == Len(method.items)
            L == Len(last.params)
            short == Invoke(MethodAtCall, SubSeq(last.params, 1, N), quiet,
                            last.res)
        IN  /\ L < N => last.err.kind = "arity" /\ last.cbCalls = 0
            /\ L > N =>
                 /\ last.err = short.err
                 /\ last.cbCalls = short.cbCalls
                 /\ last.err = NoError => last.cbCalls = 1
                 /\ Len(last.checked) <= N
                 /\ SubSeq(last.bag, 1, N) = short.bag
                 /\ SubSeq(last.bag, N + 1, L) = SubSeq(last.params, N + 1, L)
                 /\ last.warnings = << >>

\* two descriptors, three arguments, the first two match: the call succeeds
C5_Witness ==
    /\ last.called /\ method.isArraySchema
    /\ Len(method.items) = 2 /\ Len(last.params) = 3
    /\ last.err = NoError /\ last.cbCalls = 1
    /\ Len(last.cbArgs) = 3

ZeroRaws ==
    {Raw("undefined", "", << >>), Raw("null", "", << >>),
     Raw("string", "void", << >>), List(<< >>)}

\* C6: a method constructed with undefined, null, 'void' or an empty list
\* takes no arguments: a call with one or more arguments throws an arity
\* error and does not run the callback, a call with none runs the callback
\* with no arguments
C6_ZeroArgument ==
    method.status # "none" /\ args \in ZeroRaws =>
        /\ method.status = "ok"
        /\ last.called /\ Len(last.params) >= 1 =>
               last.thrown.kind = "arity" /\ last.cbCalls = 0
        /\ last.called /\ Len(last.params) = 0 =>
               last.err = NoError /\ last.cbCalls = 1 /\ last.cbArgs = << >>

\* a method made from 'void' is called with one argument
C6_Witness ==
    /\ args = Raw("string", "void", << >>)
    /\ last.called /\ Len(last.params) = 1
    /\ last.thrown.kind = "arity" /\ last.cbCalls = 0

\* the raw schemas the specification allows
Listed(raw) ==
    \/ raw \in ZeroRaws
    \/ raw.rt = "string" /\ raw.name \in KindNames \ {"foo"}
    \/ raw.rt = "function"
    \/ raw.rt = "array" /\ \A j \in 1..Len(raw.items) :
           \/ raw.items[j].desc.dt \in {"function", "regexp", "array"}
           \/ raw.items[j].desc.dt = "string"
              /\ raw.items[j].desc.name \in KindNames \ {"foo"}
    \/ raw.rt = "object"

\* C7: constructing a method with a raw schema of any other shape fails at
\* construction time with a configuration error
C7_ConfigErrorAtConstruction ==
    method.status # "none" /\ ~Listed(args) => method.status = "configError"

\* a call of a method whose schema is the one descriptor T, as the positional
\* schema [T] or as the object schema { a: T }, with an argument for it
OneDescriptorCall ==
    /\ last.called /\ Len(method.items) = 1 /\ ~IsSingle(method)
    /\ IF method.isArraySchema THEN Len(last.params) >= 1
       ELSE Truthy(Flat(OrigBag[1])) /\ Typeof(OrigBag[1]) = "object"

\* the value given for that descriptor and the value the bag holds afterwards
GivenValue ==
    IF method.isArraySchema THEN Flat(OrigBag[1])
    ELSE Read(OrigBag[1].f[method.items[1].key])
BagValue ==
    IF method.isArraySchema THEN Flat(last.bag[1])
    ELSE Read(last.bag[1].f[method.items[1].key])

\* the whole part of a number, the fraction dropped (what parseInt gives)
TruncTowardZero(v) ==
    IF v.k # "finite" THEN v
    ELSE IF v.n >= 0 THEN Num((v.n \div 10) * 10)
    ELSE Num(0 - (((0 - v.n) \div 10) * 10))

\* C8: the integer family on a present value, negative or positive: input
\* that does not parse as a number fails; 'int' gives the parsed number
\* truncated toward zero; 'roundint' gives it rounded to nearest; 'strictint'
\* accepts exactly the number-typed whole values and gives them unchanged
C8_IntegerFamily ==
    OneDescriptorCall /\ method.items[1].desc.dt = "string"
    /\ method.items[1].desc.name \in IntTypes /\ GivenValue # Undefined =>
        LET T == method.items[1].desc.name
            v == GivenValue
            num == ParseFloat(v)
        IN  /\ IsNaN(num) => last.err # NoError
            /\ T = "int" /\ ~IsNaN(num) =>
                   last.err = NoError /\ BagValue = TruncTowardZero(num)
            /\ T = "roundint" /\ ~IsNaN(num) =>
                   last.err = NoError /\ BagValue = MathRound(num)
            /\ T = "strictint" =>
                   /\ last.err = NoError <=> Typeof(v) = "number" /\ IsInteger(v)
                   /\ last.err = NoError => BagValue = v

\* an object-schema call with an argument object, whose first field is a union
UnionFieldCall ==
    /\ last.called /\ ~method.isArraySchema /\ Len(method.items) >= 1
    /\ method.items[1].desc.dt = "array"
    /\ Truthy(Flat(OrigBag[1])) /\ Typeof(OrigBag[1]) = "object"

\* that field passed validation
FirstFieldAccepted == ~(last.err.kind \in FieldErrors /\ Len(last.checked) = 1)

\* the members of the union other than the markers
Members == NonMarkers(method.items[1].desc.m)
HasMarker ==
    \/ Includes(method.items[1].desc.m, "optional")
    \/ Includes(method.items[1].desc.m, "undefined")

\* descriptor d, used as the single descriptor of a field, accepts value v
AcceptsAlone(d, v) ==
    ObjEntry(Item("a", d),
             StartState(<< Obj([NoFields EXCEPT !["a"] = v]) >>)).err = NoError

\* C9: a union-typed field holding a present, non-null value is accepted iff
\* at least one non-marker member accepts the value under the rule it has as
\* a single descriptor, and the value is left uncoerced
C9_UnionMembers ==
    UnionFieldCall /\ GivenValue # Undefined /\ GivenValue # Null =>
        /\ FirstFieldAccepted <=>
               \E j \in 1..Len(Members) : AcceptsAlone(Members[j], GivenValue)
        /\ FirstFieldAccepted => BagValue = GivenValue

OneFieldCall ==
    OneDescriptorCall /\ ~method.isArraySchema

\* C11: as the single descriptor of a field, 'optional' / 'undefined' accepts
\* the field only when its value is absent: a call that omits the field
\* passes, a call that gives it any present value is rejected
C11_AbsentOnly ==
    OneFieldCall
    /\ method.items[1].desc \in {Kind("optional"), Kind("undefined")} =>
        (last.err = NoError <=> GivenValue = Undefined)

\* 'optional' and 'undefined' exchanged, in a descriptor and in a method
SwapMarker(d) ==
    IF d = Kind("optional") THEN Kind("undefined")
    ELSE IF d = Kind("undefined") THEN Kind("optional")
    ELSE d
SwapDesc(d) ==
    IF d.dt = "array"
    THEN Union([j \in 1..Len(d.m) |-> SwapMarker(d.m[j])])
    ELSE SwapMarker(d)
SwapMethod(m) ==
    [m EXCEPT !.items = [j \in 1..Len(m.items) |->
                             Item(m.items[j].key, SwapDesc(m.items[j].desc))],
              !.ret = SwapDesc(m.ret)]

\* the same call, made on the method with the two markers exchanged
SwappedCall ==
    Invoke(SwapMethod(MethodAtCall), last.params, last.quiet, last.res)

\* C12: 'undefined' is an alias of 'optional': exchanging the two wherever
\* they appear (single field descriptor, member of a field union, fields of
\* an all-optional schema called with no argument, member of a return-type
\* union) changes nothing in the outcome of any call: what is thrown,
\* whether the callback runs, what is returned and how the promise settles
C12_UndefinedAliasOfOptional ==
    last.called =>
        /\ last.phase # "settled" =>
               /\ SwappedCall.thrown = last.thrown
               /\ SwappedCall.cbCalls = last.cbCalls
               /\ SwappedCall.returned = last.returned
               /\ SwappedCall.phase = last.phase
        /\ last.phase = "settled" =>
               SettleCall(SwapMethod([method EXCEPT !.rx = last.rxCheck]),
                          SwappedCall).settled
                   = last.settled

\* C13: the 'null' descriptor accepts a value iff the value is exactly null,
\* as the single descriptor of a field and as the single return descriptor
C13_NullOnly ==
    /\ OneFieldCall /\ method.items[1].desc = Kind("null") =>
           (last.err = NoError <=> GivenValue = Null)
    /\ last.called /\ last.cbCalls = 1 /\ ~last.res.async
       /\ method.ret = Kind("null") =>
           (last.thrown = NoError <=> last.res.val = Null)

\* a predicate call of the validation gave a promise
AsyncPred(p) == IsPromise(ApplyFn(p.fn, p.arg).val)

\* C14: a predicate whose invocation yields a promise makes validation fail
\* with the 'validators must be synchronous' error at that field or position,
\* in positional schemas and in object-schema fields alike, and the callback
\* is not run
C14_AsyncPredicateRejected ==
    last.called =>
        \A i \in 1..Len(last.preds) :
            AsyncPred(last.preds[i]) =>
                /\ last.err \in {Err("validator", last.preds[i].key),
                                 Err("thrown", last.preds[i].key)}
                /\ last.cbCalls = 0

\* a function without a prototype used as a descriptor, and a value on which
\* it neither throws nor gives a promise
SyncPredicate(d, v) ==
    /\ d.dt = "function" /\ ~HasPrototype(d.name)
    /\ ~ApplyFn(d.name, v).thrown
    /\ ~IsPromise(ApplyFn(d.name, v).val)

\* C15, parameter side: the truthiness of what the predicate returns decides
C15_ParamTruthiness ==
    OneDescriptorCall /\ SyncPredicate(method.items[1].desc, GivenValue)
    /\ (method.isArraySchema \/ GivenValue # Undefined) =>
        (last.err = NoError
             <=> Truthy(ApplyFn(method.items[1].desc.name, GivenValue).val))

\* C15, return side: the same when the predicate is the return descriptor
C15_ReturnTruthiness ==
    last.called /\ last.cbCalls = 1 /\ ~last.res.async
    /\ SyncPredicate(method.ret, last.res.val) =>
        (last.thrown = NoError
             <=> Truthy(ApplyFn(method.ret.name, last.res.val).val))

\* C15: for a synchronous predicate that does not throw, any truthy return
\* accepts and any falsy return rejects, on the parameter side (object and
\* positional schemas) and when the predicate is the return descriptor
C15_PredicateTruthiness == C15_ParamTruthiness /\ C15_ReturnTruthiness

\* the keys of the caller's argument object that the schema does not have
ExtraKeys ==
    SelectSeq(OwnKeys(First(last.params)),
              LAMBDA key : ~HasOwn(method.items, key))

\* the caller's argument object without those keys
WithoutExtras ==
    LET arg == First(last.params)
    IN  << [arg EXCEPT !.f = [key \in Keys |->
                IF HasOwn(method.items, key) THEN arg.f[key] ELSE Absent]] >>

\* a call on an object-schema method that hands it an object
ObjectCall ==
    /\ last.called /\ ~method.isArraySchema
    /\ Truthy(Flat(First(last.params)))
    /\ Typeof(First(last.params)) = "object"

\* C16: with quiet off a call on an object-schema method emits exactly one
\* diagnostic for each key that the argument object has and the schema has
\* not, in key order, and none for schema keys; with quiet on it emits none;
\* in neither case do the extra keys make the call fail
C16_ExtraKeyDiagnostics ==
    ObjectCall =>
        /\ ~last.quiet => last.warnings = ExtraKeys
        /\ last.quiet => last.warnings = << >>
        /\ last.err =
               Invoke(MethodAtCall, WithoutExtras, last.quiet, last.res).err

\* a call whose callback ran and returned a value that is not a promise
SyncResult == last.called /\ last.cbCalls = 1 /\ ~last.res.async

\* the call threw the return-type-mismatch error and returned nothing
Mismatch == last.thrown = Err("returnType", "return") /\ last.returned = Undefined

\* C17: with the return descriptor 'void' the callback's result is accepted
\* iff it is undefined, with 'any' iff it is present (null included); an
\* accepted result is returned, a violating one raises the
\* return-type-mismatch error instead of being returned
C17_VoidAndAny ==
    /\ SyncResult /\ method.ret = Kind("void") =>
           IF last.res.val = Undefined
           THEN last.thrown = NoError /\ last.returned = Undefined
           ELSE Mismatch
    /\ SyncResult /\ method.ret = Kind("any") =>
           IF last.res.val # Undefined
           THEN last.thrown = NoError /\ last.returned = last.res.val
           ELSE Mismatch

\* 'void' takes an undefined result
C17_Witness ==
    /\ SyncResult /\ method.ret = Kind("void")
    /\ last.res.val = Undefined
    /\ last.thrown = NoError /\ last.retChecks = 1

\* the same call, made on the method built without a return type
UncheckedCall ==
    Invoke([MethodAtCall EXCEPT !.ret = NoReturn], last.params, last.quiet,
           last.res)

\* C18: the return descriptor 'optional' skips return checking: every
\* callback result, absent or present, is returned to the caller without
\* error, exactly as if no return descriptor had been given
C18_OptionalSkipsReturnCheck ==
    SyncResult /\ method.ret = Kind("optional") =>
        /\ last.thrown = NoError
        /\ last.returned = last.res.val
        /\ last.thrown = UncheckedCall.thrown
        /\ last.returned = UncheckedCall.returned

\* C19: return validation never alters the result: on every successful
\* synchronous call the caller gets exactly the value the callback returned,
\* with no return descriptor and with one (a result accepted by a coercing
\* descriptor such as 'int' or a pattern comes back as it was)
C19_ResultUnaltered ==
    SyncResult /\ last.thrown = NoError => last.returned = last.res.val

\* the callback returns the string "42.9" under the return type 'int'
C19_Witness ==
    /\ SyncResult /\ method.ret = Kind("int")
    /\ last.res.val = Str(429)
    /\ last.thrown = NoError
    /\ last.returned = Str(429)

\* a call whose callback ran and returned a promise, under a return type
AsyncResult ==
    /\ last.called /\ last.cbCalls = 1 /\ HasReturnType(method)
    /\ last.res.async /\ ~last.res.fails

\* the resolved value matches the return type, by the rules of 'string',
\* 'void' and 'any' taken from their definitions
Resolved == last.res.val
SimpleTypes == {Kind("string"), Kind("void"), Kind("any")}
SimpleMatch ==
    CASE method.ret = Kind("string") -> Typeof(Resolved) = "string"
      [] method.ret = Kind("void") -> Resolved = Undefined
      [] OTHER -> Resolved # Undefined

\* C20: when a return descriptor is configured and the callback returns a
\* pending promise, the call returns a promise and throws nothing; no check
\* is run while the promise is pending; once it resolves the check has run
\* exactly once, and the returned promise is fulfilled with the resolved
\* value if the check passed and rejected with the return-type-mismatch
\* error if it failed
C20_AsyncReturn ==
    AsyncResult =>
        /\ last.thrown = NoError
        /\ IsPromise(last.returned)
        /\ last.phase \in {"pending", "settled"}
        /\ last.phase = "pending" =>
               last.retChecks = 0 /\ last.settled = Unsettled
        /\ last.phase = "settled" =>
               /\ last.retChecks = 1
               /\ last.settled \in {Fulfilled(Resolved),
                                    Rejected(Err("returnType", "return")),
                                    Rejected(Err("customValidator", "return"))}
               /\ last.settled = Fulfilled(Resolved)
                      <=> validateReturn(Resolved, method.ret,
                                         last.rxCheck).err = NoError
               /\ method.ret \in SimpleTypes =>
                      last.settled =
                          IF SimpleMatch THEN Fulfilled(Resolved)
                          ELSE Rejected(Err("returnType", "return"))

\* a promise that resolves to a number under the return type 'string': the
\* call has returned a promise, which then rejects
C20_Witness ==
    /\ AsyncResult /\ method.ret = Kind("string")
    /\ Resolved = Num(420)
    /\ IsPromise(last.returned)
    /\ last.phase = "settled"
    /\ last.settled = Rejected(Err("returnType", "return"))

\* the calls that are being followed
Calls == {call \in {last, parked} : call.called}

\* C21: when the callback's promise rejects, the call has thrown nothing and
\* returned a promise, that promise rejects with the callback's own reason,
\* unmodified, and the return validator is never run for the call, with or
\* without a return descriptor
C21_RejectionPassedOn ==
    \A call \in Calls :
        call.cbCalls = 1 /\ call.res.fails =>
            /\ call.thrown = NoError
            /\ IsPromise(call.returned)
            /\ call.retChecks = 0
            /\ call.phase = "settled" =>
                   call.settled = RejectedWith(call.res.val)

\* under the return type 'string' the callback's promise rejects with an
\* Error, and so does the promise the call returned
C21_Witness ==
    /\ last.called /\ last.cbCalls = 1
    /\ method.ret = Kind("string")
    /\ last.res = RejectsWith(Inst("Error"))
    /\ last.phase = "settled"
    /\ last.settled = RejectedWith(Inst("Error"))
    /\ last.retChecks = 0

\* an object schema in which every field is 'optional' or a union with it
AllOptionalSchema ==
    /\ method.status = "ok" /\ ~method.isArraySchema
    /\ \A j \in 1..Len(method.items) :
           \/ method.items[j].desc = Kind("optional")
           \/ /\ method.items[j].desc.dt = "array"
              /\ \E i \in 1..Len(method.items[j].desc.m) :
                     method.items[j].desc.m[i] = Kind("optional")

\* a call with no argument, with undefined or with null
NoArgumentCall ==
    /\ last.called
    /\ \/ Len(last.params) = 0
       \/ Len(last.params) = 1 /\ Flat(last.params[1]) \in {Undefined, Null}

\* C22: on such a schema a call with no argument, with undefined or with
\* null succeeds and the callback receives an empty object
C22_AllOptionalNoArgument ==
    AllOptionalSchema /\ NoArgumentCall =>
        /\ last.err = NoError
        /\ last.cbCalls = 1
        /\ last.cbArgs = << Obj(NoFields) >>

\* the bag of the call, validated once more right after the first validation
Revalidated ==
    validate(last.bag, [method EXCEPT !.rx = last.rxCheck], last.quiet)

\* C23: validation is idempotent: for every schema and every input that
\* validates, validating the coerced bag again against the same schema
\* succeeds and leaves every field of the bag unchanged
C23_Idempotent ==
    last.called /\ last.err = NoError /\ last.phase # "settled" =>
        /\ Revalidated.err = NoError
        /\ Revalidated.bag = last.bag

\* the runtime kind a descriptor promises, where it promises one
HasTargetKind(d) ==
    \/ d.dt = "regexp"
    \/ d.dt = "function" /\ HasPrototype(d.name) /\ ~PrototypeWritable(d.name)
    \/ d.dt = "string"
       /\ d.name \in {"string", "boolean", "strictboolean", "object", "array",
                      "function", "null"} \cup IntTypes \cup FloatTypes
TargetKind(d, v) ==
    IF d.dt = "regexp" THEN Typeof(v) = "string"
    ELSE IF d.dt = "function" THEN InstanceOf(v, d.name)
    ELSE IF d.name \in {"boolean", "strictboolean"} THEN Typeof(v) = "boolean"
    ELSE IF d.name \in FloatTypes THEN Typeof(v) = "number"
    ELSE IF d.name \in IntTypes THEN IsInteger(v)
    ELSE IF d.name = "object" THEN Typeof(v) = "object" /\ v # Null
    ELSE IF d.name = "array" THEN IsArray(v)
    ELSE IF d.name = "null" THEN v = Null
    ELSE Typeof(v) = d.name

\* the value the bag holds for the j-th descriptor of the schema
BagField(j) ==
    IF method.isArraySchema THEN Flat(last.bag[j])
    ELSE Read(last.bag[1].f[method.items[j].key])

\* C24: for every schema and every input that validates, each field or
\* position of the bag handed to the callback has the runtime kind of its
\* descriptor: a string for 'string' and patterns, a boolean for the boolean
\* kinds, a number for the float family, a whole number for the integer
\* family, an object / array / function / null for those kinds, an instance
\* of the class for a nominal type
C24_BagKinds ==
    last.called /\ last.cbCalls = 1 =>
        \A j \in 1..Len(method.items) :
            HasTargetKind(method.items[j].desc) =>
                TargetKind(method.items[j].desc, BagField(j))

\* the call raised a return-type-mismatch error, by a throw or by rejecting
\* the promise it returned
MismatchRaised(call) ==
    \/ call.thrown.kind = "returnType"
    \/ call.settled.err.kind = "returnType"

\* C25: a return-type-mismatch error is raised only after the callback has
\* run exactly once for that call, with the arguments of the successful
\* validation: the run is not undone and the callback is not run again
C25_MismatchAfterCallback ==
    \A call \in Calls :
        MismatchRaised(call) =>
            /\ call.err = NoError
            /\ call.cbCalls = 1
            /\ call.retChecks = 1

\* the callback returns a string under the return type 'void'
C25_Witness ==
    /\ last.called /\ method.ret = Kind("void")
    /\ last.res = Returns(Str(429))
    /\ last.thrown = Err("returnType", "return")
    /\ last.cbCalls = 1

\* the call as it goes when no other call is ever made on the method
Alone(call) ==
    LET own == Invoke([method EXCEPT !.rx = 0], call.params, call.quiet,
                      call.res)
    IN  IF own.phase = "pending" /\ call.phase = "settled"
        THEN SettleCall([method EXCEPT !.rx = own.rx], own)
        ELSE own

\* C26: concurrent invocations are independent: with a call made while the
\* promise of an earlier one is pending, in any interleaving, each call
\* validates and hands to its callback only its own arguments and settles
\* with its own callback's result, as it would if it were the only call
C26_CallsIndependent ==
    last.called /\ parked.called =>
        \A call \in Calls :
            /\ call.err = Alone(call).err
            /\ call.cbArgs = Alone(call).cbArgs
            /\ call.thrown = Alone(call).thrown
            /\ call.returned = Alone(call).returned
            /\ call.settled = Alone(call).settled

\* C27: the schema and its descriptors are never mutated after construction:
\* no step changes the stored schema or the state of one of its descriptors,
\* the match state of a pattern included
C27_SchemaNeverMutated ==
    [][method.status = "ok" => method' = method]_vars

\* the object schema { a: D } for the one descriptor D of a positional schema
FieldTwin ==
    [MethodAtCall EXCEPT !.isArraySchema = FALSE,
                         !.items = << Item("a", method.items[1].desc) >>,
                         !.cb = "asis"]

\* the call { a: v } on it, for the first argument v of the call
TwinCall ==
    Invoke(FieldTwin, << Obj([NoFields EXCEPT !["a"] = GivenValue]) >>,
           last.quiet, last.res)

\* C28: the type matcher is applied identically to positional entries and to
\* object-schema fields: for every descriptor D and present value v, [D]
\* called with (v) and { a: D } called with { a: v } agree on accept versus
\* reject and on the coerced value the callback receives
C28_PositionalAsField ==
    OneDescriptorCall /\ method.isArraySchema /\ GivenValue # Undefined =>
        /\ last.err = NoError <=> TwinCall.err = NoError
        /\ last.err = NoError /\ TwinCall.err = NoError =>
               Flat(last.bag[1]) = Read(TwinCall.bag[1].f["a"])

\* the same call, made with the quiet toggle the other way
OtherQuiet == Invoke(MethodAtCall, last.params, ~last.quiet, last.res)

\* C29: the quiet toggle never affects correctness: two runs of a call that
\* differ only in the toggle, at the call or while the call is pending, have
\* the same success or failure, the same error, the same values passed to
\* the callback and the same returned value
C29_QuietNeverMatters ==
    last.called =>
        /\ OtherQuiet.err = last.err
        /\ OtherQuiet.thrown = last.thrown
        /\ OtherQuiet.cbCalls = last.cbCalls
        /\ OtherQuiet.cbArgs = last.cbArgs
        /\ OtherQuiet.bag = last.bag
        /\ OtherQuiet.returned = last.returned
        /\ last.phase = "settled" =>
               SettleCall([method EXCEPT !.rx = last.rxCheck],
                          OtherQuiet).settled = last.settled

\* a call with a key the schema does not have succeeds under quiet
C29_Witness ==
    /\ ObjectCall /\ ~IsSingle(method)
    /\ ExtraKeys # << >>
    /\ last.quiet
    /\ last.warnings = << >>
    /\ last.cbCalls = 1

====
